---- MODULE Spec2Model ----
(***************************************************************************)
(* Model of create_issues.py: a script that drives the GitHub CLI through  *)
(* subprocess calls.  It locates the executable, checks authentication,    *)
(* asks for confirmation, creates every label of REQUIRED_LABELS and then  *)
(* every issue of TASK_GROUPS.                                             *)
(*                                                                         *)
(* The external tool is the environment: every subprocess invocation gets  *)
(* a nondeterministic outcome.  Text that the code inspects (stderr, the   *)
(* confirmation response) is a sequence of characters; text that the code  *)
(* only copies (names, titles, descriptions) is a string.                  *)
(***************************************************************************)
EXTENDS Integers, Sequences, FiniteSets, TLC

VARIABLES
    pc,          \* position of the process in the script
    gh_path,     \* module-level gh_path of __main__ ("None" before/not found)
    response,    \* module-level response of __main__ (characters); NoResponse before input() returns
    fn_gh_path,  \* local gh_path of create_github_issues
    li,          \* index of the next record in the loop of create_github_labels
    ii,          \* index of the next record in the loop of create_github_issues
    calls,       \* argument vectors of the subprocess invocations, in order
    results,     \* what the tool answered to the auth/label/issue invocations, in order
    out,         \* lines printed to standard output, in order
    exit_code,   \* exit status of the process; -1 while it is running
    faults,      \* invocations so far that failed without ending the run's work
    probes       \* what the tool answered to the version probes, in order

vars == <<pc, gh_path, response, fn_gh_path, li, ii, calls, results, out, exit_code,
          faults, probes>>

(***************************************************************************)
(* Bounds                                                                  *)
(***************************************************************************)
\* At most this many invocations of one run fail (end otherwise than by a
\* clean exit 0) and are followed by further invocations: failed probes
\* before the candidate that is found, failed label and issue invocations.
\* A locate call in which every candidate fails, a failed authentication
\* check and a declined prompt are always possible.
MaxFaults == 1

(***************************************************************************)
(* Static tables                                                           *)
(***************************************************************************)
Label(n, d, c) == [name |-> n, description |-> d, color |-> c]

\* A variant of the table in which a record was pasted twice.
REQUIRED_LABELS_pasted_twice == <<
    Label("backend", "Backend development tasks", "0052cc"),
    Label("frontend", "Frontend development tasks", "5319e7"),
    Label("backend", "Backend development tasks", "0052cc"),
    Label("foundation", "Core foundation tasks", "d93f0b"),
    Label("high-priority", "High priority tasks", "b60205") >>

REQUIRED_LABELS == <<
    Label("backend", "Backend development tasks", "0052cc"),
    Label("frontend", "Frontend development tasks", "5319e7"),
    Label("foundation", "Core foundation tasks", "d93f0b"),
    Label("authentication", "Authentication and authorization", "fbca04"),
    Label("articles", "Article management features", "0e8a16"),
    Label("comments", "Comments system", "006b75"),
    Label("tags", "Tags and tagging system", "7057ff"),
    Label("setup", "Project setup and configuration", "e99695"),
    Label("navigation", "Navigation and routing", "bfd4f2"),
    Label("feeds", "Article feeds and listing", "c2e0c6"),
    Label("editor", "Article editor functionality", "f9d0c4"),
    Label("profiles", "User profiles and settings", "fef2c0"),
    Label("ui", "User interface and design", "d4c5f9"),
    Label("responsive", "Responsive design and mobile", "c5def5"),
    Label("devops", "DevOps and deployment", "0052cc"),
    Label("docker", "Docker containerization", "006b75"),
    Label("testing", "Testing and quality assurance", "d93f0b"),
    Label("quality", "Code quality and standards", "fbca04"),
    Label("security", "Security and validation", "b60205"),
    Label("error-handling", "Error handling and user feedback", "d93f0b"),
    Label("performance", "Performance optimization", "0e8a16"),
    Label("documentation", "Documentation and guides", "5319e7"),
    Label("deployment", "Production deployment", "0052cc"),
    Label("high-priority", "High priority tasks", "b60205"),
    Label("medium-priority", "Medium priority tasks", "fbca04") >>

\* The body of a record is a long constant text that the code only copies:
\* it is named here by the line of the source where it starts.
Task(t, b, l) == [title |-> t, body |-> b, labels |-> l]

\* A variant of the table in which a label name is misspelt.
TASK_GROUPS_misspelt_label == <<
    Task("Phase 1.1: Project Setup & Go Backend Foundation", "body@53",
         <<"backend", "foundation", "high_priority">>),
    Task("Phase 1.2: User Authentication & Profile System", "body@73",
         <<"backend", "authentication", "high-priority">>) >>

TASK_GROUPS == <<
    Task("Phase 1.1: Project Setup & Go Backend Foundation", "body@53",
         <<"backend", "foundation", "high-priority">>),
    Task("Phase 1.2: User Authentication & Profile System", "body@73",
         <<"backend", "authentication", "high-priority">>),
    Task("Phase 1.3: Articles System - CRUD & Feed", "body@99",
         <<"backend", "articles", "high-priority">>),
    Task("Phase 1.4: Comments & Tags System", "body@127",
         <<"backend", "comments", "tags", "high-priority">>),
    Task("Phase 2.1: Frontend Setup & Architecture", "body@153",
         <<"frontend", "setup", "high-priority">>),
    Task("Phase 2.2: Authentication Pages & Navigation", "body@176",
         <<"frontend", "authentication", "navigation", "high-priority">>),
    Task("Phase 2.3: Home Page & Article Feeds", "body@200",
         <<"frontend", "articles", "feeds", "high-priority">>),
    Task("Phase 2.4: Article Editor & User Profiles", "body@228",
         <<"frontend", "editor", "profiles", "medium-priority">>),
    Task("Phase 2.5: Pagination & UI Polish", "body@258",
         <<"frontend", "ui", "responsive", "medium-priority">>),
    Task("Phase 3.1: Development Environment & Docker", "body@284",
         <<"devops", "docker", "testing", "medium-priority">>),
    Task("Phase 3.2: Comprehensive Testing", "body@312",
         <<"testing", "quality", "medium-priority">>),
    Task("Phase 3.3: Error Handling & Security", "body@340",
         <<"security", "error-handling", "high-priority">>),
    Task("Phase 3.4: Performance & Production Ready", "body@369",
         <<"performance", "documentation", "deployment", "medium-priority">>) >>

common_paths == <<
    "gh",
    "/c/Program Files/GitHub CLI/gh.exe",
    "C:\\Program Files\\GitHub CLI\\gh.exe",
    "/usr/local/bin/gh",
    "/opt/homebrew/bin/gh" >>

(***************************************************************************)
(* Text                                                                    *)
(***************************************************************************)
UpperToLower ==
    [c \in {"A","B","C","D","E","F","G","H","I","J","K","L","M","N","O","P","Q",
            "R","S","T","U","V","W","X","Y","Z"} |->
        CASE c = "A" -> "a" [] c = "B" -> "b" [] c = "C" -> "c" [] c = "D" -> "d"
          [] c = "E" -> "e" [] c = "F" -> "f" [] c = "G" -> "g" [] c = "H" -> "h"
          [] c = "I" -> "i" [] c = "J" -> "j" [] c = "K" -> "k" [] c = "L" -> "l"
          [] c = "M" -> "m" [] c = "N" -> "n" [] c = "O" -> "o" [] c = "P" -> "p"
          [] c = "Q" -> "q" [] c = "R" -> "r" [] c = "S" -> "s" [] c = "T" -> "t"
          [] c = "U" -> "u" [] c = "V" -> "v" [] c = "W" -> "w" [] c = "X" -> "x"
          [] c = "Y" -> "y" [] c = "Z" -> "z"]

\* str.lower()
lower(s) ==
    [i \in 1..Len(s) |-> IF s[i] \in DOMAIN UpperToLower THEN UpperToLower[s[i]] ELSE s[i]]

\* needle in hay
Contains(needle, hay) ==
    \E i \in 1..(Len(hay) - Len(needle) + 1) :
        SubSeq(hay, i, i + Len(needle) - 1) = needle

Whitespace == {" ", "\n", "\t"}

\* str.strip()
strip(s) ==
    LET keep == {i \in 1..Len(s) : s[i] \notin Whitespace}
    IN  IF keep = {} THEN <<>>
        ELSE LET first == CHOOSE i \in keep : \A j \in keep : i <= j
                 last  == CHOOSE i \in keep : \A j \in keep : j <= i
             IN  SubSeq(s, first, last)

\* The literals the code compares text with.
ALREADY_EXISTS == <<"a","l","r","e","a","d","y"," ","e","x","i","s","t","s">>
YES_WORDS == { <<"y">>, <<"y","e","s">> }

\* A variant of confirmed that accepts every response starting with y.
confirmed_startswith_y(r) == Len(r) >= 1 /\ lower(r)[1] = "y"

\* response.lower() in ['y', 'yes']
confirmed(r) == lower(r) \in YES_WORDS

(***************************************************************************)
(* The environment: what the external tool and the user may answer         *)
(***************************************************************************)
\* A completed subprocess.run (kind "exit") or one that raised
\* subprocess.TimeoutExpired (kind "timeout") or another Exception (kind "error").
Outcome(k, rc, so, se) == [kind |-> k, returncode |-> rc, stdout |-> so, stderr |-> se]
Exited(rc, so, se) == Outcome("exit", rc, so, se)
TimedOut == Outcome("timeout", -1, <<>>, <<>>)
Raised == Outcome("error", -1, <<>>, <<>>)
CleanExit == Exited(0, <<>>, <<>>)

\* Diagnostic texts of the tool: "already exists", "Label Already EXISTS\n"
\* and "already exist".
StderrMixedCase ==
    <<"L","a","b","e","l"," ","A","l","r","e","a","d","y"," ","E","X","I","S","T","S","\n">>
StderrNearMiss == <<"a","l","r","e","a","d","y"," ","e","x","i","s","t">>
StderrTexts == {ALREADY_EXISTS, StderrMixedCase, StderrNearMiss}

IssueUrl == <<"u","r","l","\n">>

ProbeOutcomes == {"zero", "nonzero", "timeout", "error"}

AuthOutcomes == {CleanExit, Exited(1, <<>>, <<>>), TimedOut, Raised}

LabelOutcomes ==
    {CleanExit, Exited(0, <<>>, ALREADY_EXISTS), TimedOut, Raised}
        \cup {Exited(1, <<>>, e) : e \in StderrTexts}

IssueOutcomes ==
    {Exited(0, IssueUrl, <<>>), Exited(1, <<>>, ALREADY_EXISTS), TimedOut, Raised}

\* A label/issue invocation that went as hoped.
Nominal(o) == o.kind = "exit" /\ o.returncode = 0 /\ o.stderr = <<>>

\* The value of response while the name is not bound yet.
NoResponse == <<"<unbound>">>

Responses == {
    <<"y">>, <<"Y","e","S">>,
    <<>>, <<"n">>, <<"y","e","s"," ">>, <<"y","e">> }

(***************************************************************************)
(* Output lines and argument vectors                                       *)
(***************************************************************************)
\* One print call: the bracketed prefix (if any), the fixed text, the name or
\* title it interpolates (if any) and the inspected text it interpolates.
Line(lv, tx, sb, dt) == [level |-> lv, text |-> tx, subject |-> sb, detail |-> dt]
Plain(tx) == Line("", tx, "", <<>>)

ProbeArgv(path) == <<path, "--version">>
AuthArgv(gh) == <<gh, "auth", "status">>
LabelArgv(gh, label) ==
    <<gh, "label", "create", label.name,
      "--description", label.description, "--color", label.color, "--force">>

RECURSIVE LabelFlags(_)
LabelFlags(ls) ==
    IF ls = <<>> THEN <<>> ELSE <<"--label", Head(ls)>> \o LabelFlags(Tail(ls))

IssueArgv(gh, task_group) ==
    <<gh, "issue", "create", "--title", task_group.title, "--body", task_group.body>>
        \o LabelFlags(task_group.labels)

(***************************************************************************)
(* find_gh_executable                                                      *)
(***************************************************************************)
\* outs[i] is what probing common_paths[i] would give.  The result is the
\* path returned ("None" for None) and the number of candidates probed.
\* A variant of the search that gives up when a probe raises.
RECURSIVE ProbeFrom_raise_aborts(_, _)
ProbeFrom_raise_aborts(i, outs) ==
    IF i > Len(common_paths) THEN [path |-> "None", probed |-> Len(common_paths)]
    ELSE IF outs[i] = "zero" THEN [path |-> common_paths[i], probed |-> i]
    ELSE IF outs[i] \in {"timeout", "error"} THEN [path |-> "None", probed |-> i]
    ELSE ProbeFrom_raise_aborts(i + 1, outs)

RECURSIVE ProbeFrom(_, _)
ProbeFrom(i, outs) ==
    IF i > Len(common_paths) THEN [path |-> "None", probed |-> Len(common_paths)]
    ELSE IF outs[i] = "zero" THEN [path |-> common_paths[i], probed |-> i]
    ELSE ProbeFrom(i + 1, outs)

find_gh_executable(outs) == ProbeFrom(1, outs)

ProbeCalls(n) == [i \in 1..n |-> ProbeArgv(common_paths[i])]

\* What the n probes of one call answered.
ProbeAnswers(n, outs) == [i \in 1..n |-> outs[i]]

\* The environment's choice of the outcomes of one locate call.
ProbeChoice(outs) ==
    LET r == find_gh_executable(outs)
    IN  r.path = "None" \/ faults + (r.probed - 1) <= MaxFaults

\* The environment's choice of the outcome of one label/issue invocation.
FaultChoice(o) == Nominal(o) \/ faults < MaxFaults

(***************************************************************************)
(* print_manual_issues                                                     *)
(***************************************************************************)
ManualLabelLines ==
    [i \in 1..Len(REQUIRED_LABELS) |->
        Line("", "- name: description (color)", REQUIRED_LABELS[i].name,
             <<REQUIRED_LABELS[i].description, REQUIRED_LABELS[i].color>>)]

ManualIssueLines(task_group) ==
    << Line("", "--- Issue #i: title ---", task_group.title, <<>>),
       Line("", "Labels:", task_group.title, task_group.labels),
       Line("", "Body:", task_group.title, <<task_group.body>>),
       Plain("-" ) >>

RECURSIVE ManualIssuesFrom(_)
ManualIssuesFrom(i) ==
    IF i > Len(TASK_GROUPS) THEN <<>>
    ELSE ManualIssueLines(TASK_GROUPS[i]) \o ManualIssuesFrom(i + 1)

\* A variant of print_manual_issues that stops after the labels.
print_manual_labels_only ==
    << Plain("="), Plain("MANUAL ISSUE CREATION"), Plain("="),
       Plain("First, create these labels in your GitHub repository:") >>
        \o ManualLabelLines

print_manual_issues ==
    << Plain("="), Plain("MANUAL ISSUE CREATION"), Plain("="),
       Plain("First, create these labels in your GitHub repository:") >>
        \o ManualLabelLines
        \o << Plain("Then copy and paste these issues into GitHub Issues manually:") >>
        \o ManualIssuesFrom(1)

(***************************************************************************)
(* Status lines of the two loops                                           *)
(***************************************************************************)
\* A variant of LabelStatusLine that looks for "already exists" in stderr
\* as it is, without lower().
LabelStatusLine_case_sensitive(label, o) ==
    IF o.kind = "exit" THEN
        IF o.returncode = 0 THEN
            Line("[SUCCESS]", "Label created/updated", label.name, <<>>)
        ELSE IF Contains(ALREADY_EXISTS, o.stderr) THEN
            Line("[INFO]", "Label already exists", label.name, <<>>)
        ELSE
            Line("[WARNING]", "Failed to create label", label.name, strip(o.stderr))
    ELSE IF o.kind = "timeout" THEN
        Line("[ERROR]", "Timeout creating label", label.name, <<>>)
    ELSE
        Line("[ERROR]", "Error creating label", label.name, <<>>)

\* The try/except of create_github_labels around one subprocess.run.
LabelStatusLine(label, o) ==
    IF o.kind = "exit" THEN
        IF o.returncode = 0 THEN
            Line("[SUCCESS]", "Label created/updated", label.name, <<>>)
        ELSE IF Contains(ALREADY_EXISTS, lower(o.stderr)) THEN
            Line("[INFO]", "Label already exists", label.name, <<>>)
        ELSE
            Line("[WARNING]", "Failed to create label", label.name, strip(o.stderr))
    ELSE IF o.kind = "timeout" THEN
        Line("[ERROR]", "Timeout creating label", label.name, <<>>)
    ELSE
        Line("[ERROR]", "Error creating label", label.name, <<>>)

\* The try/except of create_github_issues around one subprocess.run.
IssueStatusLine(task_group, o) ==
    IF o.kind = "exit" THEN
        IF o.returncode = 0 THEN
            Line("[SUCCESS]", "Issue created successfully", "", strip(o.stdout))
        ELSE
            Line("[ERROR]", "Failed to create issue", "", strip(o.stderr))
    ELSE IF o.kind = "timeout" THEN
        Line("[ERROR]", "Timeout creating issue", task_group.title, <<>>)
    ELSE
        Line("[ERROR]", "Error creating issue", "", <<>>)

LabelAnnounce(label) == Line("", "Creating label", label.name, <<>>)
IssueAnnounce(task_group) == Line("", "i/n: Creating issue", task_group.title, <<>>)

(***************************************************************************)
(* The process                                                             *)
(***************************************************************************)
Init ==
    /\ pc = "start"
    /\ gh_path = "None"
    /\ response = NoResponse
    /\ fn_gh_path = "None"
    /\ li = 1
    /\ ii = 1
    /\ calls = <<>>
    /\ results = <<>>
    /\ out = <<>>
    /\ exit_code = -1
    /\ faults = 0
    /\ probes = <<>>

Banner ==
    << Plain("GitHub Issues Creation Script"), Plain("="),
       Plain("This script will create GitHub issues based on the RealWorld implementation tasks."),
       Plain("Make sure you're authenticated with GitHub CLI first: gh auth login"),
       Plain("") >>

\* __main__ up to the result of its call of find_gh_executable.
MainLocate ==
    /\ pc = "start"
    /\ \E outs \in [1..Len(common_paths) -> ProbeOutcomes] :
         LET r == find_gh_executable(outs) IN
         /\ ProbeChoice(outs)
         /\ faults' = IF r.path = "None" THEN faults ELSE faults + (r.probed - 1)
         /\ calls' = calls \o ProbeCalls(r.probed)
         /\ probes' = probes \o ProbeAnswers(r.probed, outs)
         /\ gh_path' = r.path
         /\ IF r.path # "None"
            THEN /\ pc' = "auth"
                 /\ out' = out \o Banner
                 /\ exit_code' = exit_code
            ELSE /\ pc' = "exit"
                 /\ out' = out \o Banner
                        \o << Line("[ERROR]", "GitHub CLI not found.", "", <<>>),
                              Plain("Install from: https://cli.github.com/"),
                              Plain("Or create issues manually using the output below.") >>
                        \o print_manual_issues
                 /\ exit_code' = 1
    /\ UNCHANGED <<response, fn_gh_path, li, ii, results>>

\* A variant of auth_gate whose except clause reports the error and goes on.
auth_gate_no_exit(o, printed) ==
    IF o.kind = "exit" /\ o.returncode # 0
    THEN [pc |-> "exit", exit_code |-> 1,
          out |-> printed \o
              << Line("[ERROR]", "GitHub CLI not authenticated. Please run: gh auth login", "", <<>>),
                 Plain("Authentication is required to create issues.") >>]
    ELSE IF o.kind = "exit"
    THEN [pc |-> "prompt", exit_code |-> -1,
          out |-> Append(printed, Line("[SUCCESS]", "GitHub CLI authenticated", "", <<>>))]
    ELSE [pc |-> "prompt", exit_code |-> -1,
          out |-> printed \o
              << Line("[ERROR]", "Error checking GitHub CLI auth status", "", <<>>),
                 Plain("Please ensure GitHub CLI is installed and authenticated") >>]

\* __main__: what follows the auth status invocation that answered o.
auth_gate(o, printed) ==
    IF o.kind = "exit"
    THEN IF o.returncode # 0
         THEN [pc |-> "exit", exit_code |-> 1,
               out |-> printed \o
                   << Line("[ERROR]", "GitHub CLI not authenticated. Please run: gh auth login", "", <<>>),
                      Plain("Authentication is required to create issues.") >>]
         ELSE [pc |-> "prompt", exit_code |-> -1,
               out |-> Append(printed, Line("[SUCCESS]", "GitHub CLI authenticated", "", <<>>))]
    ELSE [pc |-> "exit", exit_code |-> 1,
          out |-> printed \o
              << Line("[ERROR]", "Error checking GitHub CLI auth status", "", <<>>),
                 Plain("Please ensure GitHub CLI is installed and authenticated") >>]

\* __main__: the auth status invocation.
AuthCheck ==
    /\ pc = "auth"
    /\ \E o \in AuthOutcomes :
         LET n == auth_gate(o, out) IN
         /\ calls' = Append(calls, AuthArgv(gh_path))
         /\ results' = Append(results, o)
         /\ pc' = n.pc /\ out' = n.out /\ exit_code' = n.exit_code
    /\ UNCHANGED <<gh_path, response, fn_gh_path, li, ii, faults, probes>>

PromptLine == Plain("Proceed with creating issues? (y/N): ")

CancelledLine == Plain("Cancelled.")

\* A variant of cancel that prints the manual fallback as well.
cancel_with_manual(printed) ==
    [pc |-> "exit", exit_code |-> 0,
     out |-> Append(printed, CancelledLine) \o print_manual_issues]

\* __main__: the else branch of the confirmation and the end of the script.
cancel(printed) == [pc |-> "exit", exit_code |-> 0, out |-> Append(printed, CancelledLine)]

\* __main__: input() returns a line.
Prompt ==
    /\ pc = "prompt"
    /\ \E r \in Responses :
         LET n == IF confirmed(r)
                  THEN [pc |-> "create_github_issues", exit_code |-> -1,
                        out |-> Append(out, PromptLine)]
                  ELSE cancel(Append(out, PromptLine))
         IN
         /\ response' = r
         /\ pc' = n.pc /\ out' = n.out /\ exit_code' = n.exit_code
    /\ UNCHANGED <<gh_path, fn_gh_path, li, ii, calls, results, faults, probes>>

\* __main__: input() raises EOFError, which nothing catches.
PromptEOF ==
    /\ pc = "prompt"
    /\ pc' = "exit"
    /\ out' = Append(out, PromptLine)
    /\ exit_code' = 1
    /\ UNCHANGED <<gh_path, response, fn_gh_path, li, ii, calls, results, faults, probes>>

DoneLine == Plain("Done! Check your repository for the created issues.")
LabelsHeader == Plain("Creating GitHub labels...")
IssuesHeader == Plain("Creating GitHub issues for RealWorld implementation tasks...")

\* What follows the loop of create_github_issues: the return to __main__,
\* its last print and the end of the script.
AfterIssues(o) == [pc |-> "exit", out |-> Append(o, DoneLine), exit_code |-> 0]

\* What follows the loop of create_github_labels: the return to
\* create_github_issues and the start of its loop.
AfterLabels(o) ==
    IF Len(TASK_GROUPS) = 0 THEN AfterIssues(Append(o, IssuesHeader))
    ELSE [pc |-> "issues", out |-> Append(o, IssuesHeader), exit_code |-> -1]

\* create_github_issues up to the start of the loop of create_github_labels.
FnLocate ==
    /\ pc = "create_github_issues"
    /\ \E outs \in [1..Len(common_paths) -> ProbeOutcomes] :
         LET r == find_gh_executable(outs) IN
         /\ ProbeChoice(outs)
         /\ faults' = IF r.path = "None" THEN faults ELSE faults + (r.probed - 1)
         /\ calls' = calls \o ProbeCalls(r.probed)
         /\ probes' = probes \o ProbeAnswers(r.probed, outs)
         /\ fn_gh_path' = r.path
         /\ IF r.path = "None"
            THEN LET o == out \o
                        << Line("[ERROR]", "GitHub CLI not found. Please install it from: https://cli.github.com/", "", <<>>),
                           Plain("Or manually create issues using the task groups below:") >>
                        \o print_manual_issues
                     n == AfterIssues(o)
                 IN  pc' = n.pc /\ out' = n.out /\ exit_code' = n.exit_code
            ELSE LET o == out \o << Line("", "Found GitHub CLI at:", r.path, <<>>), LabelsHeader >>
                     n == IF Len(REQUIRED_LABELS) = 0 THEN AfterLabels(o)
                          ELSE [pc |-> "labels", out |-> o, exit_code |-> -1]
                 IN  pc' = n.pc /\ out' = n.out /\ exit_code' = n.exit_code
    /\ UNCHANGED <<gh_path, response, li, ii, results>>

\* A variant of the label loop that is left at the first label the tool
\* refuses (non-zero exit).
NextLabel_stop_when_refused(i, o) ==
    IF o.kind = "exit" /\ o.returncode # 0 THEN Len(REQUIRED_LABELS) + 1 ELSE i + 1

\* Variants of the two loops that are left when an invocation raises.
NextLabel_break_on_raise(i, o) ==
    IF o.kind = "exit" THEN i + 1 ELSE Len(REQUIRED_LABELS) + 1
NextIssue_break_on_raise(i, o) ==
    IF o.kind = "exit" THEN i + 1 ELSE Len(TASK_GROUPS) + 1

\* for label in REQUIRED_LABELS: the index after the iteration that got o.
NextLabel(i, o) == i + 1

\* for i, task_group in enumerate(TASK_GROUPS, 1): the index after the
\* iteration that got o.
NextIssue(i, o) == i + 1

\* One iteration of the loop of create_github_labels.
LabelStep ==
    /\ pc = "labels"
    /\ li <= Len(REQUIRED_LABELS)
    /\ \E o \in LabelOutcomes :
         LET label == REQUIRED_LABELS[li]
             printed == out \o << LabelAnnounce(label), LabelStatusLine(label, o) >>
             n == IF NextLabel(li, o) > Len(REQUIRED_LABELS) THEN AfterLabels(printed)
                  ELSE [pc |-> "labels", out |-> printed, exit_code |-> -1]
         IN
         /\ FaultChoice(o)
         /\ faults' = IF Nominal(o) THEN faults ELSE faults + 1
         /\ calls' = Append(calls, LabelArgv(fn_gh_path, label))
         /\ results' = Append(results, o)
         /\ li' = NextLabel(li, o)
         /\ pc' = n.pc /\ out' = n.out /\ exit_code' = n.exit_code
    /\ UNCHANGED <<gh_path, response, fn_gh_path, ii, probes>>

\* One iteration of the loop of create_github_issues.
IssueStep ==
    /\ pc = "issues"
    /\ ii <= Len(TASK_GROUPS)
    /\ \E o \in IssueOutcomes :
         LET task_group == TASK_GROUPS[ii]
             printed == out \o << IssueAnnounce(task_group), IssueStatusLine(task_group, o) >>
             n == IF NextIssue(ii, o) > Len(TASK_GROUPS) THEN AfterIssues(printed)
                  ELSE [pc |-> "issues", out |-> printed, exit_code |-> -1]
         IN
         /\ FaultChoice(o)
         /\ faults' = IF Nominal(o) THEN faults ELSE faults + 1
         /\ calls' = Append(calls, IssueArgv(fn_gh_path, task_group))
         /\ results' = Append(results, o)
         /\ ii' = NextIssue(ii, o)
         /\ pc' = n.pc /\ out' = n.out /\ exit_code' = n.exit_code
    /\ UNCHANGED <<gh_path, response, fn_gh_path, li, probes>>

Next ==
    \/ MainLocate
    \/ AuthCheck
    \/ Prompt
    \/ PromptEOF
    \/ FnLocate
    \/ LabelStep
    \/ IssueStep

Spec == Init /\ [][Next]_vars

(***************************************************************************)
(* find_gh_executable on its own                                           *)
(***************************************************************************)
\* The state in which find_gh_executable is called, nothing done before.
InitLocate ==
    /\ pc = "find_gh_executable"
    /\ gh_path = "None"
    /\ response = NoResponse
    /\ fn_gh_path = "None"
    /\ li = 1
    /\ ii = 1
    /\ calls = <<>>
    /\ results = <<>>
    /\ out = <<>>
    /\ exit_code = -1
    /\ faults = 0
    /\ probes = <<>>

\* gh_path = find_gh_executable(), whatever each candidate answers.
LocateCall ==
    /\ pc = "find_gh_executable"
    /\ \E outs \in [1..Len(common_paths) -> ProbeOutcomes] :
         LET r == find_gh_executable(outs) IN
         /\ calls' = ProbeCalls(r.probed)
         /\ probes' = ProbeAnswers(r.probed, outs)
         /\ gh_path' = r.path
    /\ pc' = "returned"
    /\ UNCHANGED <<response, fn_gh_path, li, ii, results, out, exit_code, faults>>

NextLocate == LocateCall

SpecLocate == InitLocate /\ [][NextLocate]_vars

(***************************************************************************)
(* Observations used by the properties                                     *)
(***************************************************************************)
\* The kinds of invocation, told by the argument vector.
IsProbe(argv) == Len(argv) = 2 /\ argv[2] = "--version"
IsAuth(argv) == Len(argv) = 3 /\ argv[2] = "auth" /\ argv[3] = "status"
IsLabelCreate(argv) == Len(argv) >= 4 /\ argv[2] = "label" /\ argv[3] = "create"
IsIssueCreate(argv) == Len(argv) >= 7 /\ argv[2] = "issue" /\ argv[3] = "create"
IsMutating(argv) == IsLabelCreate(argv) \/ IsIssueCreate(argv)

LabelCreateCalls == SelectSeq(calls, IsLabelCreate)
IssueCreateCalls == SelectSeq(calls, IsIssueCreate)
AuthCalls == SelectSeq(calls, IsAuth)
NoMutatingCalls == \A k \in 1..Len(calls) : ~IsMutating(calls[k])

Printed(line) == \E k \in 1..Len(out) : out[k] = line

\* The auth status invocation was made and did not succeed.
AuthFailed ==
    /\ Len(results) >= 1
    /\ ~(results[1].kind = "exit" /\ results[1].returncode = 0)

\* The startup call of the locator returned not-found.
StartupNotFound == pc # "start" /\ gh_path = "None"

\* Every spelling of y and yes, whatever the case of its letters.
YesSpellings ==
    {<<a>> : a \in {"y", "Y"}}
        \cup {<<a, b, c>> : a \in {"y", "Y"}, b \in {"e", "E"}, c \in {"s", "S"}}

Answered == response # NoResponse
Accepted == Answered /\ response \in YesSpellings
Declined == Answered /\ response \notin YesSpellings

\* The call of the locator inside create_github_issues returned not-found.
SecondNotFound == Accepted /\ pc = "exit" /\ fn_gh_path = "None"

\* The manual fallback, read back from standard output: the label entries
\* name every record of REQUIRED_LABELS in table order, and the issue
\* entries give title, labels and body of every record of TASK_GROUPS in
\* table order.
IsManualLabel(line) == line.text = "- name: description (color)"
IsManualIssue(line) == line.text \in {"--- Issue #i: title ---", "Labels:", "Body:"}

FullManualPrinted ==
    LET ls == SelectSeq(out, IsManualLabel)
        is == SelectSeq(out, IsManualIssue)
    IN  /\ Len(ls) = Len(REQUIRED_LABELS)
        /\ \A i \in 1..Len(ls) : ls[i].subject = REQUIRED_LABELS[i].name
        /\ Len(is) = 3 * Len(TASK_GROUPS)
        /\ \A j \in 1..Len(TASK_GROUPS) :
             /\ is[3 * j - 2].text = "--- Issue #i: title ---"
             /\ is[3 * j - 2].subject = TASK_GROUPS[j].title
             /\ is[3 * j - 1].text = "Labels:"
             /\ is[3 * j - 1].detail = TASK_GROUPS[j].labels
             /\ is[3 * j].text = "Body:"
             /\ is[3 * j].detail = <<TASK_GROUPS[j].body>>

NoManualPrinted ==
    \A k \in 1..Len(out) : ~IsManualLabel(out[k]) /\ ~IsManualIssue(out[k])

(***************************************************************************)
(* Properties                                                              *)
(***************************************************************************)

\* C1: if the auth status invocation does not succeed (non-zero exit, timeout
\* or another raised error), the process ends with exit code 1, the
\* confirmation prompt is never reached and no label-create or issue-create
\* invocation is made.
C1_AuthFailureIsTerminal ==
    AuthFailed =>
        /\ pc = "exit"
        /\ exit_code = 1
        /\ NoMutatingCalls
        /\ ~Printed(PromptLine)
        /\ ~Answered

C1_Witness ==
    /\ Len(results) = 1
    /\ results[1] = TimedOut
    /\ pc = "exit"

\* C2: if every candidate of the startup locate fails, the program prints the
\* full manual fallback (labels and issues in table order), exits with
\* status 1 and makes no auth-check, label-create or issue-create invocation.
C2_StartupNotFoundPrintsManual ==
    StartupNotFound =>
        /\ pc = "exit"
        /\ exit_code = 1
        /\ FullManualPrinted
        /\ \A k \in 1..Len(calls) : IsProbe(calls[k])
        /\ Len(calls) = Len(common_paths)

C2_Witness ==
    /\ StartupNotFound
    /\ Len(calls) = Len(common_paths)
    /\ Len(out) > Len(REQUIRED_LABELS) + 3 * Len(TASK_GROUPS)

\* C3: every label-create and issue-create invocation comes after a
\* successful startup locate, a successful auth check, a confirmation
\* response that spells y or yes in any letter case, and a successful locate
\* inside create_github_issues; after any other response no such invocation
\* is made and the process ends with exit code 0.
C3_MutationOnlyAfterConfirmation ==
    /\ ~NoMutatingCalls =>
         /\ gh_path # "None"
         /\ fn_gh_path # "None"
         /\ Accepted
         /\ results[1] = CleanExit
         /\ Printed(PromptLine)
    /\ \A k \in 1..Len(calls) :
         IsMutating(calls[k]) =>
            /\ \E p \in 1..(k - 1) : IsProbe(calls[p]) /\ calls[p][1] = calls[k][1]
            /\ \E a \in 1..(k - 1) : IsAuth(calls[a])
    /\ Declined => NoMutatingCalls /\ pc = "exit" /\ exit_code = 0

C3_Witness ==
    /\ response = <<"Y", "e", "S">>
    /\ Len(LabelCreateCalls) = Len(REQUIRED_LABELS)
    /\ Len(IssueCreateCalls) >= 1

\* C4 as stated: when the user declines the confirmation, the manual
\* fallback is printed before the process exits.
C4_DeclinePrintsManual ==
    (Declined /\ pc = "exit") => FullManualPrinted

\* C4 as amended: when the user declines the confirmation, the program prints
\* "Cancelled." as its last line and exits with status 0 without any
\* label-create or issue-create invocation; it prints no entry of the manual
\* fallback.
C4_DeclineCancels ==
    Declined =>
        /\ pc = "exit"
        /\ exit_code = 0
        /\ NoMutatingCalls
        /\ Len(out) >= 1 /\ out[Len(out)] = CancelledLine
        /\ NoManualPrinted

C4_Witness ==
    /\ response = <<"n">>
    /\ pc = "exit"
    /\ Printed(CancelledLine)

\* C5 as stated: whenever a call of the locator returns not-found (at startup
\* or inside create_github_issues), the process prints the manual fallback
\* and ends with exit status 1, never reporting completion; exit status 0
\* occurs only after a declined confirmation or after both loops have run.
C5_NotFoundIsTerminal ==
    /\ (StartupNotFound \/ SecondNotFound) =>
          /\ pc = "exit"
          /\ exit_code = 1
          /\ FullManualPrinted
          /\ ~Printed(DoneLine)
    /\ (pc = "exit" /\ exit_code = 0) =>
          \/ Declined
          \/ /\ Len(LabelCreateCalls) = Len(REQUIRED_LABELS)
             /\ Len(IssueCreateCalls) = Len(TASK_GROUPS)

\* The status lines of the label loop and of the issue loop, read back from
\* standard output.
IsLabelStatus(line) ==
    line.text \in {"Label created/updated", "Label already exists",
                   "Failed to create label", "Timeout creating label",
                   "Error creating label"}
IsIssueStatus(line) ==
    line.text \in {"Issue created successfully", "Failed to create issue",
                   "Timeout creating issue", "Error creating issue"}
LabelStatusLines == SelectSeq(out, IsLabelStatus)
IssueStatusLines == SelectSeq(out, IsIssueStatus)

\* What the tool answered to the k-th label-create / issue-create invocation
\* (results[1] is the answer to auth status).
LabelResult(k) == results[1 + k]
IssueResult(k) == results[1 + Len(REQUIRED_LABELS) + k]

\* create_github_labels has returned / create_github_issues has run its loop
\* and __main__ has reported completion.
LabelLoopOver == Printed(IssuesHeader)
IssueLoopOver == Printed(IssuesHeader) /\ Printed(DoneLine)

\* The name argument of a label-create invocation, the title argument and the
\* --label values of an issue-create invocation.
NameArg(argv) == argv[4]
TitleArg(argv) == argv[5]
LabelArgs(argv) == {argv[k + 1] : k \in {n \in 7..(Len(argv) - 1) : argv[n] = "--label"}}

LabelLoopTotal(cs, ls, n) ==
    /\ n <= Len(REQUIRED_LABELS)
    /\ Len(ls) = n
    /\ Len(results) >= 1 + n \/ n = 0
    /\ \A k \in 1..n :
         /\ NameArg(cs[k]) = REQUIRED_LABELS[k].name
         /\ ls[k].subject = REQUIRED_LABELS[k].name
    /\ (n > 0 /\ n < Len(REQUIRED_LABELS)) => (pc = "labels" /\ li = n + 1)
    /\ LabelLoopOver => n = Len(REQUIRED_LABELS)
    /\ (\A k \in 1..n : LabelResult(k).kind = "exit" /\ LabelResult(k).returncode = 0)
          => \A k \in 1..n : ls[k].level = "[SUCCESS]"

\* C6: whatever the label-create invocations answer, the label loop makes
\* one label-create invocation per record of REQUIRED_LABELS, in table order,
\* and prints one status line per record in the same order; it is never
\* left before the last record; and when every invocation exits 0 all the
\* status lines are [SUCCESS] lines.
C6_LabelLoopNeverAborts ==
    LabelLoopTotal(LabelCreateCalls, LabelStatusLines, Len(LabelCreateCalls))

C6_Witness ==
    /\ LabelLoopOver
    /\ \E k \in 1..(Len(REQUIRED_LABELS) - 1) : LabelResult(k) = TimedOut
    /\ Len(LabelStatusLines) = Len(REQUIRED_LABELS)

StderrSaysExists == {ALREADY_EXISTS, StderrMixedCase}

Bucket(o) ==
    IF o.kind = "exit" /\ o.returncode = 0 THEN "success"
    ELSE IF o.kind = "exit" /\ o.stderr \in StderrSaysExists THEN "already-exists"
    ELSE "failure"

BucketLevels(b) ==
    CASE b = "success" -> {"[SUCCESS]"}
      [] b = "already-exists" -> {"[INFO]"}
      [] b = "failure" -> {"[WARNING]", "[ERROR]"}

LinesTellBuckets(ls) ==
    \A k \in 1..Len(ls) : ls[k].level \in BucketLevels(Bucket(LabelResult(k)))

\* C7: the status line of a label-create invocation tells its bucket: exit 0
\* gives a [SUCCESS] line, a non-zero exit whose stderr contains "already
\* exists" in any letter case gives an [INFO] line (never a [WARNING] line),
\* and any other non-zero exit, a timeout or another raised error gives a
\* [WARNING] or [ERROR] line.
C7_LabelOutcomeBuckets == LinesTellBuckets(LabelStatusLines)

MixedCaseReportedAsInfo(ls) ==
    \E k \in 1..Len(ls) :
        /\ LabelResult(k).returncode = 1
        /\ LabelResult(k).stderr = StderrMixedCase
        /\ ls[k].level = "[INFO]"

C7_Witness == MixedCaseReportedAsInfo(LabelStatusLines)

TimeoutLinesOf(ls, title) ==
    {m \in 1..Len(ls) :
        ls[m].text = "Timeout creating issue" /\ ls[m].subject = title}

IssueLoopTotal(cs, ls, n) ==
    /\ n <= Len(TASK_GROUPS)
    /\ Len(ls) = n
    /\ \A k \in 1..n : TitleArg(cs[k]) = TASK_GROUPS[k].title
    /\ (n > 0 /\ n < Len(TASK_GROUPS)) => (pc = "issues" /\ ii = n + 1)
    /\ IssueLoopOver => n = Len(TASK_GROUPS)
    /\ \A k \in 1..n :
         Cardinality(TimeoutLinesOf(ls, TASK_GROUPS[k].title))
            = IF IssueResult(k) = TimedOut THEN 1 ELSE 0

\* C8: whatever the issue-create invocations answer, exactly one
\* issue-create invocation is made per record of TASK_GROUPS, in declaration
\* order, none is repeated, and the loop is never left before the last
\* record; an invocation that times out prints exactly one timeout line,
\* naming that issue.
C8_IssueLoopContinuesOnError ==
    IssueLoopTotal(IssueCreateCalls, IssueStatusLines, Len(IssueCreateCalls))

C8_Witness ==
    /\ IssueLoopOver
    /\ \E k \in 1..(Len(TASK_GROUPS) - 1) : IssueResult(k) = TimedOut
    /\ Len(IssueCreateCalls) = Len(TASK_GROUPS)

NamesOf(cs) == {NameArg(cs[k]) : k \in 1..Len(cs)}

LabelsAmong(cs, names) == \A k \in 1..Len(cs) : LabelArgs(cs[k]) \subseteq names

\* C9: every --label value of an issue-create invocation is the name that an
\* earlier label-create invocation of the run tried to create.
\* (checked in every state, hence in the state right after each issue-create
\* invocation: the names are those of the label-create invocations made by then)
C9_IssueLabelsWereCreated == LabelsAmong(IssueCreateCalls, NamesOf(LabelCreateCalls))

AllCarryLabels(cs) == \A k \in 1..Len(cs) : LabelArgs(cs[k]) # {}

C9_Witness ==
    /\ Len(IssueCreateCalls) = Len(TASK_GROUPS)
    /\ AllCarryLabels(IssueCreateCalls)

NoNameTwice(cs) == Cardinality(NamesOf(cs)) = Len(cs)

\* C10: no two label-create invocations of a run name the same label.
\* (as many distinct names as invocations)
C10_LabelNamesDistinct == NoNameTwice(LabelCreateCalls)

C10_Witness ==
    /\ LabelLoopOver
    /\ Len(LabelCreateCalls) = Len(REQUIRED_LABELS)
    /\ pc = "exit"

\* A call of find_gh_executable on its own has returned; n probes were made.
Returned == pc = "returned"

ProbedInOrder(n) ==
    /\ Len(calls) = n
    /\ n <= Len(common_paths)
    /\ \A i \in 1..n : calls[i] = <<common_paths[i], "--version">>

\* C11: the locator probes the candidates in list order and returns the first
\* one whose version probe exits zero: every candidate before it was probed
\* and exited non-zero or raised (timeout included), no candidate after it is
\* probed, and not-found is returned exactly when all candidates were probed
\* and none exited zero.  A probe that raises never ends the search: the
\* search stops only at an exit zero or after the last candidate.
C11_FirstZeroExitIsReturned ==
    Returned =>
        LET n == Len(probes) IN
        /\ ProbedInOrder(n)
        /\ n >= 1
        /\ \A i \in 1..(n - 1) : probes[i] \in {"nonzero", "timeout", "error"}
        /\ n < Len(common_paths) => probes[n] = "zero"
        /\ probes[n] = "zero" => gh_path = common_paths[n]
        /\ probes[n] # "zero" => gh_path = "None"

C11_Witness ==
    /\ Returned
    /\ Len(probes) = Len(common_paths)
    /\ probes[2] = "error"
    /\ probes[3] = "timeout"
    /\ gh_path = common_paths[Len(common_paths)]

NoLabelCreateAfter(cs, k) == \A m \in (k + 1)..Len(cs) : ~IsLabelCreate(cs[m])

LabelsBeforeIssues(cs, lcs, ls) ==
    /\ \A k \in 1..Len(cs) : IsIssueCreate(cs[k]) => NoLabelCreateAfter(cs, k)
    /\ (\E k \in 1..Len(cs) : IsIssueCreate(cs[k])) =>
          /\ Len(lcs) = Len(REQUIRED_LABELS)
          /\ \A k \in 1..Len(lcs) : NameArg(lcs[k]) = REQUIRED_LABELS[k].name
          /\ Len(ls) = Len(REQUIRED_LABELS)
          /\ Len(results) > Len(REQUIRED_LABELS)

\* C12: on an accepted run the label-create invocations all come before the
\* issue-create invocations: when the first issue-create invocation is made,
\* one label-create invocation per record of REQUIRED_LABELS has been made
\* and answered and its status line printed, whatever the answer, and no
\* label-create invocation follows an issue-create invocation.
C12_LabelsBeforeIssues ==
    LabelsBeforeIssues(calls, LabelCreateCalls, LabelStatusLines)

C12_Witness ==
    /\ Len(IssueCreateCalls) = 1
    /\ \E k \in 1..Len(REQUIRED_LABELS) :
         LabelResult(k).kind = "exit" /\ LabelResult(k).returncode = 1
    /\ Len(LabelCreateCalls) = Len(REQUIRED_LABELS)

====
